---- MODULE Spec2Model ----
(***************************************************************************)
(* Black-Scholes pricing, implied volatility, Greeks (risk_metrics.py) and *)
(* the Leg / Strategy aggregation built on them (strategy.py).             *)
(*                                                                         *)
(* Numbers.  A Python/numpy float is modelled as a record [t, v]:          *)
(*   t = "num"  a finite value, v its fixed-point numerator over SCALE     *)
(*   t = "inf"  an infinity, v its sign (1 or -1)                          *)
(*   t = "nan"  not-a-number                                               *)
(* Python's None is [t |-> "none"], and a raised exception is a record     *)
(* whose tag is the exception's class name.  Arithmetic propagates a       *)
(* raised exception, turns None into TypeError and follows IEEE-754 for    *)
(* nan and the infinities.  A finite result above FMax overflows to an     *)
(* infinity, as a float's does above its largest finite value.             *)
(*                                                                         *)
(* The arguments S, K, T, r and price are Python numbers, as in the        *)
(* script at the end of strategy.py, so S / K with K = 0 raises            *)
(* ZeroDivisionError; every later division has a numpy float on one side.  *)
(***************************************************************************)
EXTENDS Integers, Sequences, FiniteSets, TLC

\* fixed-point denominator of the finite values: 1.0 is Num(SCALE)
SCALE == 1000
\* largest finite magnitude of the model's floats; above it a result is an infinity
FMax == 40000

\* F applied to the value of x (of x and y): the argument is evaluated once,
\* as a Python call evaluates its arguments before the body runs
Let1(x, F(_)) == CHOOSE e \in {F(a) : a \in {x}} : TRUE
Let2(x, y, F(_, _)) == CHOOSE e \in {F(a, b) : a \in {x}, b \in {y}} : TRUE

Abs(a) == IF a < 0 THEN -a ELSE a
Sgn(a) == IF a < 0 THEN -1 ELSE IF a > 0 THEN 1 ELSE 0
\* integer division rounding toward zero
TDivV(a, b) == Sgn(a) * Sgn(b) * (Abs(a) \div Abs(b))
TDiv(a, b) == Let2(a, b, TDivV)

Num(v) == [t |-> "num", v |-> v]
Inf(s) == [t |-> "inf", v |-> s]
NaN == [t |-> "nan", v |-> 0]
None == [t |-> "none", v |-> 0]
Raise(e) == [t |-> e, v |-> 0]
\* an attribute that has not been assigned
Unset == [t |-> "unset", v |-> 0]

\* the exceptions the code can raise, and those the specification names
ExceptionNames ==
    {"ZeroDivisionError", "TypeError",
     "InvalidParameter", "InvalidOptionKind", "ConvergenceFailure"}

IsFloat(x) == x.t \in {"num", "inf", "nan"}
IsNone(x) == x.t = "none"
IsRaised(x) == x.t \in ExceptionNames
\* a finite result, or the infinity it overflows to
FinV(n) == IF Abs(n) > FMax THEN Inf(Sgn(n)) ELSE Num(n)
Fin(n) == Let1(n, FinV)
\* sign of a float that is not nan (0 for a zero)
FSign(x) == IF x.t = "inf" THEN x.v ELSE Sgn(x.v)

\* What an arithmetic operator does before it looks at the numbers: an operand
\* whose evaluation raised propagates, a None operand is a TypeError.
Strict1(x, r) ==
    IF IsRaised(x) THEN x
    ELSE IF IsNone(x) THEN Raise("TypeError")
    ELSE r
Strict2(x, y, r) ==
    IF IsRaised(x) THEN x
    ELSE IF IsRaised(y) THEN y
    ELSE IF IsNone(x) \/ IsNone(y) THEN Raise("TypeError")
    ELSE r

NegV(x) ==
    Strict1(x, IF x.t = "nan" THEN NaN
               ELSE IF x.t = "inf" THEN Inf(-x.v)
               ELSE Num(-x.v))
FNeg(x) == Let1(x, NegV)

AddV(x, y) ==
    Strict2(x, y,
        IF x.t = "nan" \/ y.t = "nan" THEN NaN
        ELSE IF x.t = "inf" /\ y.t = "inf" THEN (IF x.v = y.v THEN x ELSE NaN)
        ELSE IF x.t = "inf" THEN x
        ELSE IF y.t = "inf" THEN y
        ELSE Fin(x.v + y.v))
FAdd(x, y) == Let2(x, y, AddV)

FSub(x, y) == FAdd(x, FNeg(y))

MulV(x, y) ==
    Strict2(x, y,
        IF x.t = "nan" \/ y.t = "nan" THEN NaN
        ELSE IF x.t = "inf" \/ y.t = "inf"
             THEN (IF FSign(x) * FSign(y) = 0 THEN NaN ELSE Inf(FSign(x) * FSign(y)))
        ELSE Fin(TDiv(x.v * y.v, SCALE)))
FMul(x, y) == Let2(x, y, MulV)

\* numpy float division: a zero divisor gives an infinity or nan, never an exception
DivV(x, y) ==
    Strict2(x, y,
        IF x.t = "nan" \/ y.t = "nan" THEN NaN
        ELSE IF x.t = "inf" /\ y.t = "inf" THEN NaN
        ELSE IF x.t = "inf" THEN Inf(x.v * (IF FSign(y) < 0 THEN -1 ELSE 1))
        ELSE IF y.t = "inf" THEN Num(0)
        ELSE IF y.v = 0 THEN (IF x.v = 0 THEN NaN ELSE Inf(Sgn(x.v)))
        ELSE Fin(TDiv(x.v * SCALE, y.v)))
FDiv(x, y) == Let2(x, y, DivV)

\* Python's own division of two Python numbers: a zero divisor raises
PyDivV(x, y) ==
    Strict2(x, y,
        IF y.t = "num" /\ y.v = 0 THEN Raise("ZeroDivisionError")
        ELSE DivV(x, y))
PyDiv(x, y) == Let2(x, y, PyDivV)

\* x < y and x <= y on floats: any comparison with nan is false
LtV(x, y) ==
    /\ IsFloat(x) /\ IsFloat(y)
    /\ x.t # "nan" /\ y.t # "nan"
    /\ \/ x.t = "num" /\ y.t = "num" /\ x.v < y.v
       \/ x.t = "inf" /\ x.v = -1 /\ ~(y.t = "inf" /\ y.v = -1)
       \/ y.t = "inf" /\ y.v = 1 /\ ~(x.t = "inf" /\ x.v = 1)
FLt(x, y) == Let2(x, y, LtV)
LeV(x, y) ==
    /\ IsFloat(x) /\ IsFloat(y)
    /\ x.t # "nan" /\ y.t # "nan"
    /\ (LtV(x, y) \/ x = y)
FLe(x, y) == Let2(x, y, LeV)

AbsV(x) ==
    Strict1(x, IF x.t = "nan" THEN NaN
               ELSE IF x.t = "inf" THEN Inf(1)
               ELSE Num(Abs(x.v)))
FAbs(x) == Let1(x, AbsV)

\* x ** 2
SqV(x) == MulV(x, x)
Sq(x) == Let1(x, SqV)

(***************************************************************************)
(* numpy / scipy.stats functions on the model's floats.                    *)
(***************************************************************************)
\* ln 2 over SCALE
Ln2 == 693

\* ln of a finite m > 0: m = 2^k * m' with SCALE <= m' < 2*SCALE, then
\* ln m' = 2 atanh z = 2 (z + z^3/3 + z^5/5), z = (m' - 1) / (m' + 1)
LnSeriesZ(z) ==
    LET z3 == TDivV(TDivV(z * z, SCALE) * z, SCALE)
        z5 == TDivV(TDivV(z3 * z, SCALE) * z, SCALE)
    IN  2 * (z + TDivV(z3, 3) + TDivV(z5, 5))
LnSeries(m) == Let1(TDivV((m - SCALE) * SCALE, m + SCALE), LnSeriesZ)
RECURSIVE LnRedV(_, _)
LnRedV(m, k) ==
    IF m >= 2 * SCALE THEN Let2(m \div 2, k + 1, LnRedV)
    ELSE IF m < SCALE THEN Let2(m * 2, k - 1, LnRedV)
    ELSE k * Ln2 + LnSeries(m)

\* np.log: nan below zero, -inf at zero
LogV(x) ==
    Strict1(x,
        IF x.t = "nan" THEN NaN
        ELSE IF x.t = "inf" THEN (IF x.v > 0 THEN x ELSE NaN)
        ELSE IF x.v < 0 THEN NaN
        ELSE IF x.v = 0 THEN Inf(-1)
        ELSE Num(LnRedV(x.v, 0)))
NpLog(x) == Let1(x, LogV)

\* floor of the square root of n, lo <= result < hi, by bisection
RECURSIVE ISqrt(_, _, _)
ISqrt(n, lo, hi) ==
    IF hi - lo <= 1 THEN lo
    ELSE Let1((lo + hi) \div 2,
              LAMBDA mid : IF mid * mid <= n THEN ISqrt(n, mid, hi)
                           ELSE ISqrt(n, lo, mid))

\* np.sqrt: nan below zero
SqrtV(x) ==
    Strict1(x,
        IF x.t = "nan" THEN NaN
        ELSE IF x.t = "inf" THEN (IF x.v > 0 THEN x ELSE NaN)
        ELSE IF x.v < 0 THEN NaN
        ELSE Num(ISqrt(x.v * SCALE, 0, 8 * SCALE)))
NpSqrt(x) == Let1(x, SqrtV)

\* e^v for finite v: halve the argument until |v| <= 1/2, then a Taylor polynomial
RECURSIVE ExpFix(_)
ExpFix(v) ==
    IF Abs(v) > SCALE \div 2
    THEN Let1(Let1(TDivV(v, 2), ExpFix), LAMBDA h : TDivV(h * h, SCALE))
    ELSE Let1(TDivV(v * v, SCALE),
              LAMBDA v2 : SCALE + v + TDivV(v2, 2) + TDivV(v2 * v, 6 * SCALE)
                          + TDivV(TDivV(v2 * v, SCALE) * v, 24 * SCALE))

\* np.exp
ExpV(x) ==
    Strict1(x,
        IF x.t = "nan" THEN NaN
        ELSE IF x.t = "inf" THEN (IF x.v > 0 THEN x ELSE Num(0))
        ELSE IF x.v > 4 * SCALE THEN Inf(1)
        ELSE IF x.v < -8 * SCALE THEN Num(0)
        ELSE Fin(ExpFix(x.v)))
NpExp(x) == Let1(x, ExpV)

\* Phi and phi of the standard normal at 0, 0.5, ..., 4.0, over SCALE
CdfTable == <<500, 691, 841, 933, 977, 994, 999, 1000, 1000>>
PdfTable == <<399, 352, 242, 130, 54, 18, 4, 1, 0>>
\* linear interpolation in a table with step 1/2, for a >= 0
Interp(tab, a) ==
    LET step == SCALE \div 2
        i == a \div step
    IN  IF i + 1 >= Len(tab) THEN tab[Len(tab)]
        ELSE tab[i + 1] + TDivV((tab[i + 2] - tab[i + 1]) * (a % step), step)

\* scipy.stats.norm.cdf
CdfV(x) ==
    Strict1(x,
        IF x.t = "nan" THEN NaN
        ELSE IF x.t = "inf" THEN (IF x.v > 0 THEN Num(SCALE) ELSE Num(0))
        ELSE IF x.v >= 0 THEN Num(Interp(CdfTable, x.v))
        ELSE Num(SCALE - Interp(CdfTable, -x.v)))
NormCdf(x) == Let1(x, CdfV)

\* scipy.stats.norm.pdf
PdfV(x) ==
    Strict1(x,
        IF x.t = "nan" THEN NaN
        ELSE IF x.t = "inf" THEN Num(0)
        ELSE Num(Interp(PdfTable, Abs(x.v))))
NormPdf(x) == Let1(x, PdfV)

(***************************************************************************)
(* risk_metrics.py                                                         *)
(***************************************************************************)
Half == Num(SCALE \div 2)

\* BlackScholes.__init__: the object is its five fields
BlackScholes(S, K, T, r, option) ==
    [S |-> S, K |-> K, T |-> T, r |-> r, option |-> option]

\* d1 = (np.log(S / K) + (r + 0.5 * sigma ** 2) * T) / (sigma * np.sqrt(T)),
\* the expression black_scholes, delta, gamma and vega each spell out
D1(self, sigma) ==
    FDiv(FAdd(NpLog(PyDiv(self.S, self.K)),
              FMul(FAdd(self.r, FMul(Half, Sq(sigma))), self.T)),
         FMul(sigma, NpSqrt(self.T)))

\* black_scholes with "else" where the code has "elif self.option == 'put'":
\* every kind that is not 'call' is priced as a put
black_scholes_d1_else(self, sigma, d1) ==
    LET d2 == FSub(d1, FMul(sigma, NpSqrt(self.T)))
        disc == FMul(self.K, NpExp(FMul(FNeg(self.r), self.T)))
    IN  IF IsRaised(d1) THEN d1
        ELSE IF self.option = "call"
        THEN FSub(FMul(self.S, NormCdf(d1)), FMul(disc, NormCdf(d2)))
        ELSE FSub(FMul(disc, NormCdf(FNeg(d2))), FMul(self.S, NormCdf(FNeg(d1))))

\* BlackScholes.black_scholes, after d1: d2, then the branch on the kind.  A
\* kind that is neither 'call' nor 'put' falls off the end of the if / elif,
\* and the method returns None
black_scholes_d1(self, sigma, d1) ==
    LET d2 == FSub(d1, FMul(sigma, NpSqrt(self.T)))
        disc == FMul(self.K, NpExp(FMul(FNeg(self.r), self.T)))
    IN  IF IsRaised(d1) THEN d1
        ELSE IF self.option = "call"
        THEN FSub(FMul(self.S, NormCdf(d1)), FMul(disc, NormCdf(d2)))
        ELSE IF self.option = "put"
        THEN FSub(FMul(disc, NormCdf(FNeg(d2))), FMul(self.S, NormCdf(FNeg(d1))))
        ELSE None
\* BlackScholes.black_scholes
black_scholes(self, sigma) ==
    Let2(self, sigma, LAMBDA o, x : Let1(D1(o, x), LAMBDA d1 : black_scholes_d1(o, x, d1)))

\* target = lambda sigma: (self.black_scholes(sigma) - price) ** 2
target(self, price, sigma) == Sq(FSub(black_scholes(self, sigma), price))

(***************************************************************************)
(* scipy.optimize.fmin(target, [sigma], disp = False): the Nelder-Mead     *)
(* simplex search in one dimension, with scipy's defaults.  The simplex is *)
(* two points (s0, s1) with their values (f0, f1), the better one first.   *)
(***************************************************************************)
\* maxiter and maxfun default to 200 * len(x0)
MaxIterPerDim == 200
\* xtol = ftol = 1e-4, in units of 1 / SCALE
XTol == Num(SCALE \div 10000)
FTol == Num(SCALE \div 10000)

\* argsort of the two values: the smaller first, a nan last, ties keep their order
Sort2(s0, f0, s1, f1) ==
    IF FLt(f1, f0) \/ (f0.t = "nan" /\ f1.t # "nan")
    THEN [s0 |-> s1, f0 |-> f1, s1 |-> s0, f1 |-> f0]
    ELSE [s0 |-> s0, f0 |-> f0, s1 |-> s1, f1 |-> f1]

\* the state of the search: the sorted simplex and the two counters
Simplex(s0, f0, s1, f1, fcalls, iterations) ==
    [s0 |-> s0, f0 |-> f0, s1 |-> s1, f1 |-> f1,
     fcalls |-> fcalls, iterations |-> iterations, raised |-> None]
\* the objective raised: the exception leaves fmin
SimplexRaised(e) ==
    [s0 |-> NaN, f0 |-> NaN, s1 |-> NaN, f1 |-> NaN,
     fcalls |-> 0, iterations |-> 0, raised |-> e]
\* no search is running
NoSimplex == SimplexRaised(Unset)

\* fmin's set-up: the initial simplex is x0 and 1.05 * x0 (0.00025 when x0 is 0),
\* both evaluated and sorted; iterations starts at 1
fmin_start(self, price, x0) ==
    LET y == IF x0.t = "num" /\ x0.v = 0 THEN Num(SCALE \div 4000)
             ELSE FMul(Num(SCALE + SCALE \div 20), x0)
        Sorted(f0, f1) ==
            LET o == Sort2(x0, f0, y, f1)
            IN  IF IsRaised(f0) THEN SimplexRaised(f0)
                ELSE IF IsRaised(f1) THEN SimplexRaised(f1)
                ELSE Simplex(o.s0, o.f0, o.s1, o.f1, 2, 1)
    IN  Let2(target(self, price, x0), target(self, price, y), Sorted)

\* the loop's exits: the budget (while condition) and the convergence test (break)
fmin_budget_left(nm) ==
    nm.fcalls < MaxIterPerDim /\ nm.iterations < MaxIterPerDim
fmin_converged(nm) ==
    /\ FLe(FAbs(FSub(nm.s1, nm.s0)), XTol)
    /\ FLe(FAbs(FSub(nm.f0, nm.f1)), FTol)
fmin_running(nm) == fmin_budget_left(nm) /\ ~fmin_converged(nm)

\* one pass of the while loop: reflect, then expand, contract or shrink, then sort
fmin_iterate(self, price, nm) ==
    LET s0 == nm.s0
        f0 == nm.f0
        s1 == nm.s1
        f1 == nm.f1
        two == Num(2 * SCALE)
        three == Num(3 * SCALE)
        f(x) == target(self, price, x)
        \* rho = 1, chi = 2, psi = 0.5, sigma = 0.5; xbar = sim[0]
        xr == FSub(FMul(two, s0), s1)
        xe == FSub(FMul(three, s0), FMul(two, s1))
        xc == FSub(FMul(FAdd(Num(SCALE), Half), s0), FMul(Half, s1))
        xcc == FAdd(FMul(Half, s0), FMul(Half, s1))
        xs == FAdd(s0, FMul(Half, FSub(s1, s0)))
        \* sim[-1] = n1, fsim[-1] = g1, after `calls` more evaluations
        Go(n1, g1, calls) ==
            LET o == Sort2(s0, f0, n1, g1)
            IN  Simplex(o.s0, o.f0, o.s1, o.f1, nm.fcalls + calls, nm.iterations + 1)
        Shrink ==
            Let1(f(xs), LAMBDA fxs :
                IF IsRaised(fxs) THEN SimplexRaised(fxs) ELSE Go(xs, fxs, 3))
        Expand(fxr) ==
            Let1(f(xe), LAMBDA fxe :
                IF IsRaised(fxe) THEN SimplexRaised(fxe)
                ELSE IF LtV(fxe, fxr) THEN Go(xe, fxe, 2)
                ELSE Go(xr, fxr, 2))
        ContractOutside(fxr) ==
            Let1(f(xc), LAMBDA fxc :
                IF IsRaised(fxc) THEN SimplexRaised(fxc)
                ELSE IF LeV(fxc, fxr) THEN Go(xc, fxc, 2)
                ELSE Shrink)
        ContractInside ==
            Let1(f(xcc), LAMBDA fxcc :
                IF IsRaised(fxcc) THEN SimplexRaised(fxcc)
                ELSE IF LtV(fxcc, f1) THEN Go(xcc, fxcc, 2)
                ELSE Shrink)
        Reflected(fxr) ==
            IF IsRaised(fxr) THEN SimplexRaised(fxr)
            ELSE IF LtV(fxr, f0) THEN Expand(fxr)
            \* fsim[-2] is fsim[0] in one dimension: "fxr < fsim[-2]" is false here
            ELSE IF LtV(fxr, f1) THEN ContractOutside(fxr)
            ELSE ContractInside
    IN  Let1(f(xr), Reflected)

\* the status fmin computes after the loop and, with disp = False and no
\* full_output, neither reports nor returns: 0 converged, 1 maxfun, 2 maxiter
fmin_warnflag(nm) ==
    IF nm.fcalls >= MaxIterPerDim THEN 1
    ELSE IF nm.iterations >= MaxIterPerDim THEN 2
    ELSE 0

\* BlackScholes.implied_volatility's return statement: res[0], the best point of
\* the final simplex, whatever the search's status was
implied_volatility_return(nm) == nm.s0

\* Risk.__init__
Risk(S, K, T, r, sigma, option) ==
    [S |-> S, K |-> K, T |-> T, r |-> r, sigma |-> sigma, option |-> option]

\* Risk.delta: like black_scholes, None for a kind that is neither 'call' nor 'put'
Risk_delta(self) ==
    LET d1 == D1(self, self.sigma)
    IN  IF IsRaised(d1) THEN d1
        ELSE IF self.option = "call" THEN NormCdf(d1)
        ELSE IF self.option = "put" THEN FSub(NormCdf(d1), Num(SCALE))
        ELSE None

\* gamma with delta's branch on the kind: None for an unrecognized kind
Risk_gamma_branch(self) ==
    LET d1 == D1(self, self.sigma)
    IN  IF self.option \in {"call", "put"}
        THEN FDiv(NormPdf(d1), FMul(FMul(self.S, self.sigma), NpSqrt(self.T)))
        ELSE None

\* Risk.gamma: norm.pdf(d1) / (S * sigma * np.sqrt(T))
Risk_gamma(self) ==
    LET d1 == D1(self, self.sigma)
    IN  FDiv(NormPdf(d1), FMul(FMul(self.S, self.sigma), NpSqrt(self.T)))

\* Risk.vega: S * norm.pdf(d1) * np.sqrt(T) / 100
Risk_vega(self) ==
    LET d1 == D1(self, self.sigma)
    IN  FDiv(FMul(FMul(self.S, NormPdf(d1)), NpSqrt(self.T)), Num(100 * SCALE))

(***************************************************************************)
(* strategy.py                                                             *)
(***************************************************************************)
\* the implied-volatility initial guess Leg.__init__ passes: 0.2
LegGuess == Num(SCALE \div 5)

\* Leg.__init__, lines 7-11: the five attributes assigned before the solver
\* runs; sigma, delta, gamma, vega and option are not assigned yet
Leg_fields(a) ==
    [underlying |-> a.underlying, strike |-> a.strike, maturity |-> a.maturity,
     rate |-> a.rate, price |-> a.price,
     sigma |-> Unset, delta |-> Unset, gamma |-> Unset, vega |-> Unset,
     option |-> "unset"]
NoLeg ==
    [underlying |-> Unset, strike |-> Unset, maturity |-> Unset,
     rate |-> Unset, price |-> Unset,
     sigma |-> Unset, delta |-> Unset, gamma |-> Unset, vega |-> Unset,
     option |-> "unset"]

\* line 13: BlackScholes(underlying, strike, maturity, rate, option)
Leg_pricer(a) == BlackScholes(a.underlying, a.strike, a.maturity, a.rate, a.option)
\* line 14 with the initial guess where the code passes self.sigma
Leg_risks_guess(self, a) ==
    Risk(a.underlying, a.strike, a.maturity, a.rate, LegGuess, a.option)

\* line 14: risks = Risk(underlying, strike, maturity, rate, self.sigma, option)
Leg_risks(self, a) ==
    Risk(a.underlying, a.strike, a.maturity, a.rate, self.sigma, a.option)

\* Strategy.__init__
Strategy(legs) == [legs |-> legs]

\* The three aggregates: an accumulator starting at 0, "+=" over self.legs in
\* order.  Each returns the accumulated value and leaves self as it found it.
RECURSIVE SumFrom(_, _, _, _)
SumFrom(acc, ls, field, i) ==
    IF i > Len(ls) THEN acc
    ELSE SumFrom(FAdd(acc, ls[i][field]), ls, field, i + 1)

\* delta() summing leg.gamma, gamma() with "=" for "+=", vega() without its
\* return statement, and vega() emptying the list it walks
Strategy_delta_gamma(self) ==
    [ret |-> SumFrom(Num(0), self.legs, "gamma", 1), self |-> self]
Strategy_gamma_assign(self) ==
    [ret |-> IF self.legs = <<>> THEN Num(0) ELSE self.legs[Len(self.legs)].gamma,
     self |-> self]
Strategy_vega_noreturn(self) == [ret |-> None, self |-> self]
Strategy_vega_pop(self) ==
    [ret |-> SumFrom(Num(0), self.legs, "vega", 1), self |-> Strategy(<<>>)]

Strategy_delta(self) == [ret |-> SumFrom(Num(0), self.legs, "delta", 1), self |-> self]
Strategy_gamma(self) == [ret |-> SumFrom(Num(0), self.legs, "gamma", 1), self |-> self]
Strategy_vega(self) == [ret |-> SumFrom(Num(0), self.legs, "vega", 1), self |-> self]

(***************************************************************************)
(* State.                                                                  *)
(***************************************************************************)
VARIABLES
    pc,     \* where the caller's current call stands: "idle", a line of
            \* Leg.__init__ ("L13" .. "L19"), or "IV" inside a direct call of
            \* implied_volatility
    args,   \* the arguments of the call in progress
    nm,     \* the simplex of the running fmin, NoSimplex when none runs
    leg,    \* the Leg under construction (self inside Leg.__init__)
    legs,   \* the Legs the constructor has returned, in the caller's list
    calls,  \* the risk_metrics calls made by the latest Leg.__init__, in order
    out     \* the outcome of the caller's latest completed call

vars == <<pc, args, nm, leg, legs, calls, out>>

NoArgs ==
    [underlying |-> Unset, strike |-> Unset, maturity |-> Unset, rate |-> Unset,
     price |-> Unset, sigma |-> Unset, option |-> "unset"]
\* op: the operation; res: what it returned or raised; warnflag: fmin's status
\* when the operation ran the solver (not part of what the caller receives);
\* obj: the arguments it ran with
Outcome(op, res, warnflag, obj) ==
    [op |-> op, res |-> res, warnflag |-> warnflag, obj |-> obj]
NoOut == Outcome("none", Unset, 0, NoArgs)

\* one entry of calls
Call(fn, a, sigma, price) ==
    [fn |-> fn, S |-> a.underlying, K |-> a.strike, T |-> a.maturity,
     r |-> a.rate, option |-> a.option, sigma |-> sigma, price |-> price]

(***************************************************************************)
(* Inputs.                                                                 *)
(***************************************************************************)
\* the longest list of Legs a caller assembles
MaxLegs == 3

Kinds == {"call", "put", "straddle"}
MakeArgs(S, K, T, r, price, sigma, option) ==
    [underlying |-> Num(S), strike |-> Num(K), maturity |-> Num(T), rate |-> Num(r),
     price |-> Num(price), sigma |-> Num(sigma), option |-> option]
\* what the caller of Spec builds Legs from: at and in the money, two quotes,
\* every kind, and a zero strike
LegArgs ==
    {MakeArgs(SCALE, K, SCALE, SCALE \div 20, price, SCALE \div 5, option) :
        K \in {0, SCALE}, price \in {SCALE \div 10, (3 * SCALE) \div 10},
        option \in Kinds}
\* what the caller of SpecCalc passes: every sign of S, T and sigma, strikes
\* at, above and equal to zero, and three quotes: one attainable, one above
\* every price the formula can give, one so large that the squared pricing
\* error overflows; the solver is started from the guess 0.2
CalcArgs ==
    {MakeArgs(S, K, T, SCALE \div 20, price, sigma, option) :
        S \in {-SCALE, 0, SCALE}, K \in {0, SCALE, 2 * SCALE},
        T \in {-SCALE, 0, SCALE},
        price \in {SCALE \div 10, 3 * SCALE, 7 * SCALE},
        sigma \in {-(SCALE \div 5), 0, SCALE \div 5},
        option \in Kinds}
SolveArgs == {a \in CalcArgs : a.sigma = LegGuess}

(***************************************************************************)
(* Actions.                                                                *)
(***************************************************************************)
Init ==
    /\ pc = "idle"
    /\ args = NoArgs
    /\ nm = NoSimplex
    /\ leg = NoLeg
    /\ legs = <<>>
    /\ calls = <<>>
    /\ out = NoOut

\* Leg.__init__ raises e: no Leg reaches the caller
LegFails(e) ==
    /\ pc' = "idle"
    /\ nm' = NoSimplex
    /\ leg' = NoLeg
    /\ out' = Outcome("Leg", e, 0, args')
    /\ UNCHANGED legs

\* Leg(underlying, strike, maturity, rate, price, option): lines 7-11, and line 13
\* up to the first pass of fmin's loop
LegInit(a) ==
    /\ pc = "idle"
    /\ args' = a
    /\ calls' = <<Call("implied_volatility", a, LegGuess, a.price)>>
    /\ \E start \in {fmin_start(Leg_pricer(a), a.price, LegGuess)} :
           IF IsRaised(start.raised)
           THEN LegFails(start.raised)
           ELSE /\ pc' = "L13"
                /\ nm' = start
                /\ leg' = Leg_fields(a)
                /\ out' = NoOut
                /\ UNCHANGED legs

\* a direct call BlackScholes(S, K, T, r, option).implied_volatility(sigma, price)
CallImpliedVolatility(a) ==
    /\ pc = "idle"
    /\ args' = a
    /\ \E start \in {fmin_start(Leg_pricer(a), a.price, a.sigma)} :
           IF IsRaised(start.raised)
           THEN /\ pc' = "idle"
                /\ nm' = NoSimplex
                /\ out' = Outcome("implied_volatility", start.raised, 0, a)
           ELSE /\ pc' = "IV"
                /\ nm' = start
                /\ out' = NoOut
    /\ UNCHANGED <<leg, legs, calls>>

\* one pass of fmin's while loop, inside Leg.__init__ or a direct call
Iterate ==
    /\ pc \in {"L13", "IV"}
    /\ fmin_running(nm)
    /\ \E next \in {fmin_iterate(Leg_pricer(args), args.price, nm)} :
           IF ~IsRaised(next.raised)
           THEN /\ nm' = next
                /\ UNCHANGED <<pc, leg, legs, out>>
           ELSE IF pc = "L13"
           THEN LegFails(next.raised)
           ELSE /\ pc' = "idle"
                /\ nm' = NoSimplex
                /\ out' = Outcome("implied_volatility", next.raised, 0, args)
                /\ UNCHANGED <<leg, legs>>
    /\ UNCHANGED <<args, calls>>

\* the direct call returns res[0]
ImpliedVolatilityReturn ==
    /\ pc = "IV"
    /\ ~fmin_running(nm)
    /\ pc' = "idle"
    /\ nm' = NoSimplex
    /\ out' = Outcome("implied_volatility", implied_volatility_return(nm),
                      fmin_warnflag(nm), args)
    /\ UNCHANGED <<args, leg, legs, calls>>

\* line 13 completes: self.sigma = ...implied_volatility(0.2, price)
LegSigma ==
    /\ pc = "L13"
    /\ ~fmin_running(nm)
    /\ pc' = "L15"
    /\ nm' = NoSimplex
    /\ leg' = [leg EXCEPT !.sigma = implied_volatility_return(nm)]
    /\ UNCHANGED <<args, legs, calls, out>>

\* lines 14-15: risks = Risk(...); self.delta = risks.delta()
LegDelta ==
    /\ pc = "L15"
    /\ \E risks \in {Leg_risks(leg, args)} : \E d \in {Risk_delta(risks)} :
           /\ calls' = Append(calls, Call("delta", args, risks.sigma, args.price))
           /\ IF IsRaised(d) THEN LegFails(d)
              ELSE /\ pc' = "L16"
                   /\ leg' = [leg EXCEPT !.delta = d]
                   /\ UNCHANGED <<nm, legs, out>>
    /\ UNCHANGED args

\* line 16: self.gamma = risks.gamma()
LegGamma ==
    /\ pc = "L16"
    /\ \E risks \in {Leg_risks(leg, args)} : \E g \in {Risk_gamma(risks)} :
           /\ calls' = Append(calls, Call("gamma", args, risks.sigma, args.price))
           /\ IF IsRaised(g) THEN LegFails(g)
              ELSE /\ pc' = "L17"
                   /\ leg' = [leg EXCEPT !.gamma = g]
                   /\ UNCHANGED <<nm, legs, out>>
    /\ UNCHANGED args

\* line 17: self.vega = risks.vega()
LegVega ==
    /\ pc = "L17"
    /\ \E risks \in {Leg_risks(leg, args)} : \E v \in {Risk_vega(risks)} :
           /\ calls' = Append(calls, Call("vega", args, risks.sigma, args.price))
           /\ IF IsRaised(v) THEN LegFails(v)
              ELSE /\ pc' = "L19"
                   /\ leg' = [leg EXCEPT !.vega = v]
                   /\ UNCHANGED <<nm, legs, out>>
    /\ UNCHANGED args

\* line 19: self.option = option; the constructor returns and the caller puts
\* the Leg in its list
LegReturn ==
    /\ pc = "L19"
    /\ pc' = "idle"
    /\ legs' = Append(legs, [leg EXCEPT !.option = args.option])
    /\ leg' = NoLeg
    /\ out' = Outcome("Leg", Num(0), 0, args)
    /\ UNCHANGED <<args, nm, calls>>

\* Strategy(legs).delta() / .gamma() / .vega(): the list the Strategy holds is
\* the caller's, so what the method leaves in self.legs is what the caller has
StrategyDelta ==
    /\ pc = "idle"
    /\ \E done \in {Strategy_delta(Strategy(legs))} :
           /\ out' = Outcome("Strategy.delta", done.ret, 0, NoArgs)
           /\ legs' = done.self.legs
    /\ UNCHANGED <<pc, args, nm, leg, calls>>
StrategyGamma ==
    /\ pc = "idle"
    /\ \E done \in {Strategy_gamma(Strategy(legs))} :
           /\ out' = Outcome("Strategy.gamma", done.ret, 0, NoArgs)
           /\ legs' = done.self.legs
    /\ UNCHANGED <<pc, args, nm, leg, calls>>
StrategyVega ==
    /\ pc = "idle"
    /\ \E done \in {Strategy_vega(Strategy(legs))} :
           /\ out' = Outcome("Strategy.vega", done.ret, 0, NoArgs)
           /\ legs' = done.self.legs
    /\ UNCHANGED <<pc, args, nm, leg, calls>>

\* direct calls of the pricing formula and of the three Greeks
CallBlackScholes(a) ==
    /\ pc = "idle"
    /\ out' = Outcome("black_scholes", black_scholes(Leg_pricer(a), a.sigma), 0, a)
    /\ UNCHANGED <<pc, args, nm, leg, legs, calls>>
RiskOf(a) == Risk(a.underlying, a.strike, a.maturity, a.rate, a.sigma, a.option)
CallDelta(a) ==
    /\ pc = "idle"
    /\ out' = Outcome("delta", Risk_delta(RiskOf(a)), 0, a)
    /\ UNCHANGED <<pc, args, nm, leg, legs, calls>>
CallGamma(a) ==
    /\ pc = "idle"
    /\ out' = Outcome("gamma", Risk_gamma(RiskOf(a)), 0, a)
    /\ UNCHANGED <<pc, args, nm, leg, legs, calls>>
CallVega(a) ==
    /\ pc = "idle"
    /\ out' = Outcome("vega", Risk_vega(RiskOf(a)), 0, a)
    /\ UNCHANGED <<pc, args, nm, leg, legs, calls>>

\* A caller that builds Legs one after the other, up to MaxLegs of them, and
\* asks a Strategy over its list for the aggregates at any point.
Next ==
    \/ \E a \in LegArgs : Len(legs) < MaxLegs /\ LegInit(a)
    \/ Iterate
    \/ LegSigma
    \/ LegDelta
    \/ LegGamma
    \/ LegVega
    \/ LegReturn
    \/ StrategyDelta
    \/ StrategyGamma
    \/ StrategyVega

Spec == Init /\ [][Next]_vars

\* A caller that makes one call of risk_metrics.py, or builds one Leg, with
\* arguments of every sign.
Fresh == pc = "idle" /\ out = NoOut /\ legs = <<>>
NextCalc ==
    \/ \E a \in CalcArgs : Fresh /\ CallBlackScholes(a)
    \/ \E a \in CalcArgs : Fresh /\ CallDelta(a)
    \/ \E a \in CalcArgs : Fresh /\ CallGamma(a)
    \/ \E a \in CalcArgs : Fresh /\ CallVega(a)
    \/ \E a \in SolveArgs : Fresh /\ CallImpliedVolatility(a)
    \/ \E a \in SolveArgs : Fresh /\ LegInit(a)
    \/ Iterate
    \/ ImpliedVolatilityReturn
    \/ LegSigma
    \/ LegDelta
    \/ LegGamma
    \/ LegVega
    \/ LegReturn

SpecCalc == Init /\ [][NextCalc]_vars

(***************************************************************************)
(* Properties.                                                             *)
(***************************************************************************)
AggregateOps == {"Strategy.delta", "Strategy.gamma", "Strategy.vega"}
ValidKinds == {"call", "put"}

\* the sum of a field over a list of Legs, from the last Leg backwards
RECURSIVE FieldSum(_, _)
FieldSum(ls, field) ==
    IF ls = <<>> THEN Num(0)
    ELSE FAdd(ls[Len(ls)][field], FieldSum(SubSeq(ls, 1, Len(ls) - 1), field))

\* C1: Strategy.delta(), gamma() and vega() each return the sum of the stored
\* leg.delta, leg.gamma, leg.vega over all legs, and 0 for an empty list.
C1_AggregatesAreSums ==
    /\ out.op = "Strategy.delta" => out.res = FieldSum(legs, "delta")
    /\ out.op = "Strategy.gamma" => out.res = FieldSum(legs, "gamma")
    /\ out.op = "Strategy.vega" => out.res = FieldSum(legs, "vega")
    /\ (out.op \in AggregateOps /\ legs = <<>>) => out.res = Num(0)
\* delta() has summed two Legs whose deltas and gammas differ
C1_Witness ==
    /\ out.op = "Strategy.delta"
    /\ Len(legs) = 2
    /\ legs[1].delta # legs[2].delta
    /\ legs[1].delta # legs[1].gamma
    /\ out.res = FAdd(legs[1].delta, legs[2].delta)

Positive(x) == x.t = "num" /\ x.v > 0
\* S, K, T and sigma are all positive
WellFormed(a) ==
    Positive(a.underlying) /\ Positive(a.strike) /\ Positive(a.maturity)
        /\ Positive(a.sigma)

\* C2: a call of black_scholes or of Risk.delta with a kind outside
\* {call, put} ends in InvalidOptionKind, never in a silent None (stated for
\* positive S, K, T and sigma, where nothing else can go wrong).
C2_InvalidKindRaises ==
    (/\ out.op \in {"black_scholes", "delta"}
     /\ out.obj.option \notin ValidKinds
     /\ WellFormed(out.obj))
        => (out.res.t = "InvalidOptionKind" /\ ~IsNone(out.res))

Populated(l) ==
    IsFloat(l.sigma) /\ IsFloat(l.delta) /\ IsFloat(l.gamma) /\ IsFloat(l.vega)
LegFailed == out.op = "Leg" /\ IsRaised(out.res)
LegSucceeded == out.op = "Leg" /\ ~IsRaised(out.res)

\* C3: Leg construction is atomic: either the constructor fails and the caller
\* receives no Leg, or the Leg it receives has sigma, delta, gamma and vega all
\* set to a float (never None, never unassigned); this for every input, a kind
\* outside {call, put} included.
C3_ConstructionAtomic ==
    /\ \A i \in 1..Len(legs) : Populated(legs[i])
    /\ LegFailed => legs = <<>>
    /\ LegSucceeded => Len(legs) = 1 /\ Populated(legs[1])
\* a Leg of an unrecognized kind was asked for, the constructor raised, and
\* the caller holds no Leg
C3_Witness ==
    /\ LegFailed
    /\ out.obj.option \notin ValidKinds
    /\ out.obj.strike.v > 0
    /\ legs = <<>>

\* C4: a call of Strategy.delta(), gamma() or vega() leaves the list of Legs,
\* and with it every Leg's sigma, delta, gamma and vega, as it was, and makes
\* no call into risk_metrics (nothing is recomputed).
C4_AggregatesChangeNothing ==
    [][(pc = "idle" /\ pc' = "idle" /\ out'.op \in AggregateOps)
          => (legs' = legs /\ calls' = calls /\ leg' = leg)]_vars
\* vega() has run over a full list
C4_Witness ==
    /\ out.op = "Strategy.vega"
    /\ Len(legs) = MaxLegs
    /\ \A i \in 1..Len(legs) : legs[i].vega.t = "num" /\ legs[i].vega.v # 0

\* C5: when the search ends because its budget is exhausted, implied_volatility
\* ends in ConvergenceFailure and does not return a plain sigma (stated for
\* positive S, K, T and guess and a kind in {call, put}, where the pricing
\* formula itself has nothing to reject).
C5_ExhaustionRaises ==
    (/\ out.op = "implied_volatility"
     /\ out.warnflag # 0
     /\ WellFormed(out.obj) /\ out.obj.option \in ValidKinds)
        => (out.res.t = "ConvergenceFailure" /\ ~IsFloat(out.res))

NonPositive(x) == x.t = "num" /\ x.v <= 0
\* C6: black_scholes, delta, gamma and vega fail with InvalidParameter whenever
\* S <= 0, K <= 0, T <= 0 or sigma <= 0.
C6_NonPositiveRaises ==
    (/\ out.op \in {"black_scholes", "delta", "gamma", "vega"}
     /\ \/ NonPositive(out.obj.underlying)
        \/ NonPositive(out.obj.strike)
        \/ NonPositive(out.obj.maturity)
        \/ NonPositive(out.obj.sigma))
        => out.res.t = "InvalidParameter"

\* C7: over Legs the constructor returned, the empty list included, delta(),
\* gamma() and vega() complete and return a float; whatever is raised is raised
\* by the Leg constructor.
C7_AggregatesNeverFail ==
    /\ out.op \in AggregateOps => IsFloat(out.res)
    /\ IsRaised(out.res) => out.op = "Leg"
\* an aggregate returned a float after a Leg construction had failed and
\* another had succeeded
C7_Witness ==
    /\ out.op = "Strategy.gamma"
    /\ IsFloat(out.res)
    /\ Len(legs) = 1
    /\ args.option \notin ValidKinds

\* the permutations of 1..n, and a list rearranged by one
Perms(n) == {p \in [1..n -> 1..n] : \A i, j \in 1..n : p[i] = p[j] => i = j}
Permuted(ls, p) == [i \in 1..Len(ls) |-> ls[p[i]]]

\* C8: for every permutation of the list of Legs, delta(), gamma() and vega()
\* return what they return for the list itself.
C8_OrderIrrelevant ==
    \A p \in Perms(Len(legs)) :
        /\ out.op = "Strategy.delta"
              => Strategy_delta(Strategy(Permuted(legs, p))).ret = out.res
        /\ out.op = "Strategy.gamma"
              => Strategy_gamma(Strategy(Permuted(legs, p))).ret = out.res
        /\ out.op = "Strategy.vega"
              => Strategy_vega(Strategy(Permuted(legs, p))).ret = out.res
\* gamma() has run over two Legs with different gammas
C8_Witness ==
    /\ out.op = "Strategy.gamma"
    /\ Len(legs) >= 2
    /\ legs[1].gamma # legs[2].gamma

\* C9: Risk.gamma() and Risk.vega() return the same for call, put and any
\* other kind at the same S, K, T, r, sigma, and the kind makes neither fail
\* nor return None.
C9_KindIndependent ==
    /\ out.op = "gamma" =>
          /\ \A k \in Kinds : Risk_gamma(RiskOf([out.obj EXCEPT !.option = k])) = out.res
          /\ ~IsNone(out.res) /\ out.res.t \notin {"TypeError", "InvalidOptionKind"}
    /\ out.op = "vega" =>
          /\ \A k \in Kinds : Risk_vega(RiskOf([out.obj EXCEPT !.option = k])) = out.res
          /\ ~IsNone(out.res) /\ out.res.t \notin {"TypeError", "InvalidOptionKind"}
\* gamma() of an unrecognized kind returned a finite non-zero value
C9_Witness ==
    /\ out.op = "gamma"
    /\ out.obj.option \notin ValidKinds
    /\ out.res.t = "num" /\ out.res.v # 0

InLegInit == pc \in {"L13", "L15", "L16", "L17", "L19"}
GreekOrder == <<"implied_volatility", "delta", "gamma", "vega">>
\* the sigma the Leg of the latest construction stores
StoredSigma == IF InLegInit THEN leg.sigma ELSE legs[Len(legs)].sigma
\* C10: Leg.__init__ first calls implied_volatility, once, with guess 0.2, the
\* quoted price and the Leg's S, K, T, r and kind; only after it has returned
\* are delta, gamma and vega computed, once each and in that order, from the
\* returned sigma and the same S, K, T, r and kind; that sigma is leg.sigma.
C10_ConstructionOrder ==
    (InLegInit \/ LegSucceeded) =>
        /\ Len(calls) = (CASE pc = "L13" -> 1 [] pc = "L15" -> 1 [] pc = "L16" -> 2
                           [] pc = "L17" -> 3 [] OTHER -> 4)
        /\ calls[1] = Call("implied_volatility", args, Num(SCALE \div 5), args.price)
        /\ \A i \in 2..Len(calls) :
              calls[i] = Call(GreekOrder[i], args, StoredSigma, args.price)
        /\ pc = "L13" => leg.sigma = Unset
        /\ pc # "L13" => IsFloat(StoredSigma)
\* a Leg was returned whose sigma is not the initial guess, after four calls
C10_Witness ==
    /\ LegSucceeded
    /\ Len(calls) = 4
    /\ legs[1].sigma.t = "num"
    /\ legs[1].sigma # LegGuess

====
